---- MODULE Spec2Model ----
(***************************************************************************)
(* Majandusmäng, the business quiz of a_main/views.py: the question        *)
(* generator (type cooldown, company cooldown, fair pair search, question  *)
(* text) and the session state machine of the views index and reset_game.  *)
(*                                                                         *)
(* Representation.  A Python dict is a function with a set of string keys  *)
(* (the empty dict is <<>>), a list is a sequence, None is <<>>.  A        *)
(* nullable number (a NULL column) is <<>> or <<n>>.  A Decimal amount of   *)
(* euros is an integer count of cents.  A registered_date string           *)
(* "DD.MM.YYYY" is the sequence of its dot-separated numbers, <<>> for the  *)
(* empty string.  A county string is the sequence of its comma-separated   *)
(* parts, each part the sequence of its words.  An activity string is the  *)
(* sequence of its characters.                                             *)
(***************************************************************************)
EXTENDS Integers, Sequences, FiniteSets, TLC

VARIABLES
    db,        \* the Company table: a set of rows
    session,   \* request.session of the one browser session followed
    request,   \* the request handled last
    response,  \* what the last request returned to the caller
    promos,    \* history: responses since the last reset that carried show_promo
    picked,    \* result of the last direct call of get_companies_for_question
    asked,     \* history: the types of the last questions generated since the last reset
    other,     \* request.session of a second browser, as the session store holds it
    question_types,  \* the module's list QUESTION_TYPES, as the process holds it
    inflight   \* the answer submissions being handled: what each has read so far

vars == <<db, session, request, response, promos, picked, asked, other, question_types, inflight>>

None == <<>>

(***************************************************************************)
(* Bounds of the model.                                                    *)
(***************************************************************************)
\* the score is followed up to MaxScore ...
MaxScore == 5
\* ... and down to -MaxDebt
MaxDebt == 1
\* the history asked keeps the last MaxAsked questions
MaxAsked == 6

(***************************************************************************)
(* Game configuration, views.py 13-38.                                     *)
(***************************************************************************)
PROMO_THRESHOLD == 5
TYPE_COOLDOWN == 5
COMPANY_COOLDOWN == 2

\* amounts in cents
MIN_DIFF ==
    [years |-> 7, employees |-> 20, revenue |-> 200000000,
     profit |-> 50000000, labor_taxes |-> 10000000]

\* a list of question types no longer than the cooldown window
TwoQuestionTypes == <<"revenue", "profit">>

QUESTION_TYPES ==
    <<"age", "employees", "revenue", "profit", "labor_taxes",
      "county", "ceo", "activity", "legal_form", "vat">>

\* the [:500] of every sample query
SAMPLE_LIMIT == 500

\* activity[:60]
ACTIVITY_TEXT_LIMIT == 60

(***************************************************************************)
(* Python helpers.                                                         *)
(***************************************************************************)
Range(seq) == {seq[i] : i \in 1..Len(seq)}

\* seq[-n:]
LastN(seq, n) == IF Len(seq) <= n THEN seq ELSE SubSeq(seq, Len(seq) - n + 1, Len(seq))

\* d.get(k, default)
Get(d, k, default) == IF k \in DOMAIN d THEN d[k] ELSE default

\* d[k] = v
Put(d, k, v) == IF k \in DOMAIN d THEN [d EXCEPT ![k] = v] ELSE (k :> v) @@ d

Abs(n) == IF n < 0 THEN -n ELSE n

MinOf(S) == CHOOSE x \in S : \A y \in S : x <= y

\* random.shuffle, order_by('?'): every order of the rows of S
RECURSIVE Orders(_)
Orders(S) ==
    IF S = {} THEN {<<>>}
    ELSE UNION {{<<x>> \o rest : rest \in Orders(S \ {x})} : x \in S}

\* order_by('?')[:500]: the rows a sample can hold
Samples(S) ==
    IF Cardinality(S) <= SAMPLE_LIMIT THEN {S}
    ELSE {T \in SUBSET S : Cardinality(T) = SAMPLE_LIMIT}

(***************************************************************************)
(* Rows of the Company table, models.py 4-44 (the columns the game reads). *)
(***************************************************************************)
IsNull(v) == v = <<>>

\* every row of the table, complete or not
AllCompanies(table) == table

\* get_complete_companies with no test of vat_number
CompleteWithoutVat(table) ==
    {c \in table :
        /\ c.name # ""
        /\ c.registry_code # ""
        /\ c.legal_form # ""
        /\ c.registered_date # <<>>
        /\ c.county # <<>>
        /\ c.activity # <<>>
        /\ c.ceo # ""
        /\ ~IsNull(c.employees)
        /\ ~IsNull(c.revenue)
        /\ ~IsNull(c.profit)
        /\ ~IsNull(c.labor_taxes)}

\* get_complete_companies: the chain of exclude() and filter() on the table
get_complete_companies(table) ==
    {c \in table :
        /\ c.name # ""
        /\ c.registry_code # ""
        /\ c.legal_form # ""
        /\ c.registered_date # <<>>
        /\ c.county # <<>>
        /\ c.activity # <<>>
        /\ c.ceo # ""
        /\ ~IsNull(c.employees)
        /\ ~IsNull(c.revenue)
        /\ ~IsNull(c.profit)
        /\ ~IsNull(c.labor_taxes)
        /\ c.vat_number # ""}

\* the calendar datetime.strptime checks a day against
DaysInMonth(m, y) ==
    IF m \in {4, 6, 9, 11} THEN 30
    ELSE IF m = 2 THEN (IF (y % 4 = 0 /\ y % 100 # 0) \/ y % 400 = 0 THEN 29 ELSE 28)
    ELSE 31

\* parse_date: strptime(date_str, '%d.%m.%Y'); None for an empty string and
\* for a ValueError (not three numbers, or no such day, month or year)
parse_date(date_str) ==
    IF date_str = <<>> THEN None
    ELSE IF /\ Len(date_str) = 3
            /\ date_str[3] \in 1..9999
            /\ date_str[2] \in 1..12
            /\ date_str[1] \in 1..DaysInMonth(date_str[2], date_str[3])
         THEN [day |-> date_str[1], month |-> date_str[2], year |-> date_str[3]]
         ELSE None

\* get_year_from_date: <<year>>, or None
get_year_from_date(date_str) ==
    LET Year(dt) == IF dt # None THEN <<dt.year>> ELSE None
    IN Year(parse_date(date_str))

\* str.lower() on the words the tables use
Lower(w) ==
    CASE w = "Harju" -> "harju"
      [] w = "HARJU" -> "harju"
      [] w = "Tartu" -> "tartu"
      [] w = "Tallinn" -> "tallinn"
      [] w = "Maakond" -> "maakond"
      [] OTHER -> w

\* part.replace(' maakond', ''): the word "maakond" goes wherever a space
\* precedes it, that is everywhere but at the head of the stripped part
RemoveMaakond(part) ==
    LET Keep(i) == i = 1 \/ part[i] # "maakond"
        RECURSIVE Filter(_)
        Filter(i) == IF i > Len(part) THEN <<>>
                     ELSE (IF Keep(i) THEN <<part[i]>> ELSE <<>>) \o Filter(i + 1)
    IN Filter(1)

\* extract_county_name: the last comma-separated part, without " maakond",
\* lower-cased; None when the string or that part is empty
extract_county_name(county_str) ==
    IF county_str = <<>> THEN None
    ELSE LET county_part == county_str[Len(county_str)]
             Normal(cut) == [i \in 1..Len(cut) |-> Lower(cut[i])]
             Named(county) == IF county # <<>> THEN county ELSE None
         IN Named(Normal(RemoveMaakond(county_part)))

\* get_available_question_types with a window of three questions
ShortWindowTypes(recent_types) ==
    LET Outside(window) == SelectSeq(QUESTION_TYPES, LAMBDA t : t \notin window)
        OrAll(available) == IF available # <<>> THEN available ELSE QUESTION_TYPES
    IN OrAll(Outside(Range(LastN(recent_types, 3))))

\* get_available_question_types with the window taken from the head of the
\* list
HeadWindowTypes(recent_types) ==
    LET Outside(window) == SelectSeq(QUESTION_TYPES, LAMBDA t : t \notin window)
        OrAll(available) == IF available # <<>> THEN available ELSE QUESTION_TYPES
        Head5 == SubSeq(recent_types, 1,
                        IF Len(recent_types) < TYPE_COOLDOWN THEN Len(recent_types)
                        ELSE TYPE_COOLDOWN)
    IN OrAll(Outside(Range(Head5)))

\* get_available_question_types: the types outside the cooldown window, in
\* QUESTION_TYPES order; all of them when none is left
get_available_question_types(recent_types) ==
    LET Outside(window) == SelectSeq(QUESTION_TYPES, LAMBDA t : t \notin window)
        OrAll(available) == IF available # <<>> THEN available ELSE QUESTION_TYPES
    IN OrAll(Outside(Range(LastN(recent_types, TYPE_COOLDOWN))))

(***************************************************************************)
(* The fair pair search, get_companies_for_question.                       *)
(***************************************************************************)
\* age: both years parse and lie MIN_DIFF['years'] apart
AgeFair(c1, c2) ==
    LET Apart(year1, year2) ==
            /\ year1 # None
            /\ year2 # None
            /\ Abs(year1[1] - year2[1]) >= MIN_DIFF.years
    IN Apart(get_year_from_date(c1.registered_date), get_year_from_date(c2.registered_date))

\* the age pair returned as the loops found it
AgeAsFound(c1, c2) == <<c1, c2>>

\* return (c1, c2) if year1 < year2 else (c2, c1)
AgeOrder(c1, c2) ==
    IF get_year_from_date(c1.registered_date)[1] < get_year_from_date(c2.registered_date)[1]
    THEN <<c1, c2>> ELSE <<c2, c1>>

\* a value pair taken for fair as soon as the two values differ
ValueFairAnyDifference(field, c1, c2) ==
    /\ ~IsNull(c1[field])
    /\ ~IsNull(c2[field])
    /\ Abs(c1[field][1] - c2[field][1]) > 0

\* employees, revenue, profit, labor_taxes: both values present and
\* MIN_DIFF[field] apart
ValueFair(field, c1, c2) ==
    /\ ~IsNull(c1[field])
    /\ ~IsNull(c2[field])
    /\ Abs(c1[field][1] - c2[field][1]) >= MIN_DIFF[field]

\* the value pair returned as the loops found it
ValueAsFound(field, c1, c2) == <<c1, c2>>

\* return (c1, c2) if c1.field > c2.field else (c2, c1)
ValueOrder(field, c1, c2) ==
    IF c1[field][1] > c2[field][1] THEN <<c1, c2>> ELSE <<c2, c1>>

\* county strings compared as they are written
CountyFairAsWritten(c1, c2) == c1.county # <<>> /\ c2.county # <<>> /\ c1.county # c2.county

\* county: both county names extract and differ
CountyFair(c1, c2) ==
    LET Differ(county1, county2) == county1 # None /\ county2 # None /\ county1 # county2
    IN Differ(extract_county_name(c1.county), extract_county_name(c2.county))

\* ceo, activity, legal_form: the two values differ
TextFair(field, c1, c2) == c1[field] # c2[field]

\* the test that ends the loops of a type
Fair(q_type, c1, c2) ==
    CASE q_type = "age" -> AgeFair(c1, c2)
      [] q_type \in {"employees", "revenue", "profit", "labor_taxes"} ->
           ValueFair(q_type, c1, c2)
      [] q_type = "county" -> CountyFair(c1, c2)
      [] q_type \in {"ceo", "activity", "legal_form"} -> TextFair(q_type, c1, c2)

\* the return statement of a type: (correct company, wrong company)
Returned(q_type, c1, c2) ==
    CASE q_type = "age" -> AgeOrder(c1, c2)
      [] q_type \in {"employees", "revenue", "profit", "labor_taxes"} ->
           ValueOrder(q_type, c1, c2)
      [] q_type \in {"county", "ceo", "activity", "legal_form"} -> <<c1, c2>>

\* the loops with the return None of the end inside the outer loop: only the
\* first row of the shuffled sample is tried as c1
ScanPairsFirstRow(companies, q_type) ==
    LET Partners(n) ==
            {j \in 1..n : /\ companies[1].id # companies[j].id
                          /\ Fair(q_type, companies[1], companies[j])}
        First(partners) ==
            IF partners = {} THEN None ELSE <<companies[1], companies[MinOf(partners)]>>
    IN First(Partners(Len(companies)))

\* the two nested for loops over the shuffled sample: the first c1, and for
\* it the first c2, with another id and a fair difference; None when the
\* loops end
ScanPairs(companies, q_type) ==
    LET n == Len(companies)
        Second(hits, i) == MinOf({ij[2] : ij \in {h \in hits : h[1] = i}})
        First(hits) ==
            IF hits = {} THEN {None}
            ELSE {<<companies[i], companies[Second(hits, i)]>> :
                     i \in {MinOf({ij[1] : ij \in hits})}}
    IN CHOOSE hit \in UNION {First(hits) :
                 hits \in {{ij \in (1..n) \X (1..n) :
                              /\ companies[ij[1]].id # companies[ij[2]].id
                              /\ Fair(q_type, companies[ij[1]], companies[ij[2]])}}} : TRUE

\* the rows a question may use: complete, and not among the last
\* COMPANY_COOLDOWN ids
BaseQs(table, recent_company_ids) ==
    {c \in get_complete_companies(table) :
        c.id \notin Range(LastN(recent_company_ids, COMPANY_COOLDOWN))}

\* every result the scan of a type can give, over the samples and shuffles
ScanResults(pool, q_type) ==
    LET Result(hit) == IF hit = None THEN None ELSE Returned(q_type, hit[1], hit[2])
    IN {Result(hit) :
           hit \in {ScanPairs(companies, q_type) :
                       companies \in UNION {Orders(sample) : sample \in Samples(pool)}}}

\* get_companies_for_question: the results the call can return, each a pair
\* (correct company, wrong company) or None
get_companies_for_question(q_type, recent_company_ids, table) ==
    LET base_qs == BaseQs(table, recent_company_ids)
    IN CASE q_type = "age" ->
              ScanResults({c \in base_qs : c.registered_date # <<>>}, q_type)
         [] q_type \in {"employees", "revenue", "profit", "labor_taxes"} ->
              ScanResults({c \in base_qs : ~IsNull(c[q_type])}, q_type)
         [] q_type = "county" ->
              ScanResults({c \in base_qs : c.county # <<>>}, q_type)
         [] q_type = "ceo" ->
              ScanResults({c \in base_qs : c.ceo # ""}, q_type)
         [] q_type = "activity" ->
              ScanResults({c \in base_qs : c.activity # <<>>}, q_type)
         [] q_type = "legal_form" ->
              ScanResults({c \in base_qs : c.legal_form # ""}, q_type)
         [] q_type = "vat" ->
              LET with == {c \in base_qs : c.vat_number # ""}
                  without == {c \in base_qs : c.vat_number = ""}
              IN IF with = {} \/ without = {} THEN {None}
                 ELSE {<<c1, c2>> : c1 \in with, c2 \in without}
         [] OTHER -> {None}

(***************************************************************************)
(* The question text, generate_question_text.  A text is the sequence of   *)
(* its pieces, every piece a string.                                       *)
(***************************************************************************)
\* int(): towards zero
TruncDiv(a, b) == IF a >= 0 THEN a \div b ELSE -((-a) \div b)

\* format(n / unit, '.0f') for n >= 0: to the nearest, a tie to the even
\* neighbour (n / unit on a tie is a float with no rounding error when unit
\* is 1000)
RoundHalfEven(n, unit) ==
    LET q == n \div unit
        r == n % unit
    IN IF 2 * r < unit THEN q
       ELSE IF 2 * r > unit THEN q + 1
       ELSE IF q % 2 = 0 THEN q ELSE q + 1

\* 2^m % 5
Pow2Mod5(m) == <<1, 2, 4, 3>>[(m % 4) + 1]

\* the exponent of the float n for n >= 1
RECURSIVE Log2(_)
Log2(n) == IF n < 2 THEN 0 ELSE 1 + Log2(n \div 2)

\* format(value / 1000000, '.1f') for value >= 1000000, in tenths.  The
\* division gives the float nearest to the quotient and the format rounds
\* the binary value of that float.  Off a tie of the decimal quotient this
\* is the nearest tenth.  On a tie, value = n * 50000 with n odd, and the
\* quotient n / 20 is a float only when 5 divides n: then the tie goes to
\* the even neighbour.  Otherwise the float has 53 bits, the quotient lies
\* (n * 2^(50 - e)) % 5 fifths of its last bit above the float below it,
\* e being the exponent, and the format follows the float: up when the
\* float is the one above (3 or 4 fifths), down when it is the one below.
MillionsTenths(value) ==
    LET q == value \div 100000
        n == value \div 50000
        fifths == (n * Pow2Mod5(50 - Log2(value \div 1000000))) % 5
    IN IF 2 * (value % 100000) # 100000 \/ n % 5 = 0
       THEN RoundHalfEven(value, 100000)
       ELSE IF fifths \in {3, 4} THEN q + 1 ELSE q

\* the three renderings of an amount, views.py 272-279, 283-289, 293-299
AmountText(cents) ==
    LET value == TruncDiv(cents, 100)
    IN IF value >= 1000000
       THEN LET tenths == MillionsTenths(value)
            IN <<ToString(tenths \div 10), ".", ToString(tenths % 10), "miljonit">>
       ELSE IF value >= 1000
       THEN <<ToString(RoundHalfEven(value, 1000)), "tuhat">>
       ELSE <<ToString(value)>>

\* str.capitalize() on the county names the tables use
Capitalize(w) ==
    CASE w = "harju" -> "Harju"
      [] w = "tartu" -> "Tartu"
      [] w = "tallinn" -> "Tallinn"
      [] w = "maakond" -> "Maakond"
      [] OTHER -> w

generate_question_text(q_type, correct_company) ==
    CASE q_type = "age" ->
           LET year == get_year_from_date(correct_company.registered_date)
           IN IF year # None
              THEN <<"Milline ettevote asutati aastal", ToString(year[1]), "?">>
              ELSE <<"Milline ettevote on vanem?">>
      [] q_type = "employees" ->
           <<"Millisel ettevottel on", ToString(correct_company.employees[1]), "tootajat?">>
      [] q_type = "revenue" ->
           <<"Millisel ettevottel on kaive">> \o AmountText(correct_company.revenue[1])
               \o <<"eurot?">>
      [] q_type = "profit" ->
           <<"Millisel ettevottel on kasum">> \o AmountText(correct_company.profit[1])
               \o <<"eurot?">>
      [] q_type = "labor_taxes" ->
           <<"Millisel ettevottel on toojoukulud">>
               \o AmountText(correct_company.labor_taxes[1]) \o <<"eurot?">>
      [] q_type = "county" ->
           LET county_name == extract_county_name(correct_company.county)
               county_display ==
                   IF county_name # None
                   THEN <<Capitalize(county_name[1])>> \o Tail(county_name) \o <<"maakond">>
                   ELSE IF correct_company.county # <<>>
                        THEN correct_company.county[Len(correct_company.county)]
                        ELSE <<"?">>
           IN <<"Milline ettevote asub">> \o county_display \o <<"?">>
      [] q_type = "ceo" ->
           <<"Millist ettevotet juhib", correct_company.ceo, "?">>
      [] q_type = "activity" ->
           LET activity ==
                   IF Len(correct_company.activity) > ACTIVITY_TEXT_LIMIT
                   THEN SubSeq(correct_company.activity, 1, ACTIVITY_TEXT_LIMIT) \o <<"...">>
                   ELSE correct_company.activity
           IN <<"Milline ettevote tegeleb:">> \o activity \o <<"?">>
      [] q_type = "legal_form" ->
           <<"Milline ettevote on", correct_company.legal_form, "?">>
      [] q_type = "vat" ->
           <<"Millisel ettevottel on KMKR number", correct_company.vat_number, "?">>
      [] OTHER -> <<"Vali oige ettevote">>

\* generate_question without the append of the type to recent_types
QuestionForTypeNotRecorded(s, q_type, result, correct_first) ==
    LET correct_company == result[1]
        wrong_company == result[2]
        company_a == IF correct_first THEN correct_company ELSE wrong_company
        company_b == IF correct_first THEN wrong_company ELSE correct_company
        correct_position == IF correct_first THEN "a" ELSE "b"
        question_text == generate_question_text(q_type, correct_company)
        recent_types == Get(s, "recent_types", <<>>)
        recent_company_ids ==
            Get(s, "recent_company_ids", <<>>) \o <<correct_company.id, wrong_company.id>>
        s1 == Put(s, "recent_types", LastN(recent_types, TYPE_COOLDOWN))
        s2 == Put(s1, "recent_company_ids", LastN(recent_company_ids, COMPANY_COOLDOWN * 2))
        s3 == Put(s2, "current_question",
                  [type |-> q_type,
                   text |-> question_text,
                   company_a_id |-> company_a.id,
                   company_b_id |-> company_b.id,
                   correct_position |-> correct_position,
                   correct_company_id |-> correct_company.id])
    IN [session |-> s3,
        question |-> [text |-> question_text, company_a |-> company_a, company_b |-> company_b]]

\* generate_question storing position a whichever side the correct company is on
QuestionForPositionA(s, q_type, result, correct_first) ==
    LET correct_company == result[1]
        wrong_company == result[2]
        company_a == IF correct_first THEN correct_company ELSE wrong_company
        company_b == IF correct_first THEN wrong_company ELSE correct_company
        correct_position == "a"
        question_text == generate_question_text(q_type, correct_company)
        recent_types == Append(Get(s, "recent_types", <<>>), q_type)
        recent_company_ids ==
            Get(s, "recent_company_ids", <<>>) \o <<correct_company.id, wrong_company.id>>
        s1 == Put(s, "recent_types", LastN(recent_types, TYPE_COOLDOWN))
        s2 == Put(s1, "recent_company_ids", LastN(recent_company_ids, COMPANY_COOLDOWN * 2))
        s3 == Put(s2, "current_question",
                  [type |-> q_type,
                   text |-> question_text,
                   company_a_id |-> company_a.id,
                   company_b_id |-> company_b.id,
                   correct_position |-> correct_position,
                   correct_company_id |-> correct_company.id])
    IN [session |-> s3,
        question |-> [text |-> question_text, company_a |-> company_a, company_b |-> company_b]]

\* the question stored with the two histories never cut
QuestionForUntrimmed(s, q_type, result, correct_first) ==
    LET correct_company == result[1]
        wrong_company == result[2]
        company_a == IF correct_first THEN correct_company ELSE wrong_company
        company_b == IF correct_first THEN wrong_company ELSE correct_company
        correct_position == IF correct_first THEN "a" ELSE "b"
        question_text == generate_question_text(q_type, correct_company)
        recent_types == Append(Get(s, "recent_types", <<>>), q_type)
        recent_company_ids ==
            Get(s, "recent_company_ids", <<>>) \o <<correct_company.id, wrong_company.id>>
        s1 == Put(s, "recent_types", recent_types)
        s2 == Put(s1, "recent_company_ids", recent_company_ids)
        s3 == Put(s2, "current_question",
                  [type |-> q_type,
                   text |-> question_text,
                   company_a_id |-> company_a.id,
                   company_b_id |-> company_b.id,
                   correct_position |-> correct_position,
                   correct_company_id |-> correct_company.id])
    IN [session |-> s3,
        question |-> [text |-> question_text, company_a |-> company_a, company_b |-> company_b]]

\* the question stored with the ids listed left side first
QuestionForIdsBySide(s, q_type, result, correct_first) ==
    LET correct_company == result[1]
        wrong_company == result[2]
        company_a == IF correct_first THEN correct_company ELSE wrong_company
        company_b == IF correct_first THEN wrong_company ELSE correct_company
        correct_position == IF correct_first THEN "a" ELSE "b"
        question_text == generate_question_text(q_type, correct_company)
        recent_types == Append(Get(s, "recent_types", <<>>), q_type)
        recent_company_ids ==
            Get(s, "recent_company_ids", <<>>) \o <<company_a.id, company_b.id>>
        s1 == Put(s, "recent_types", LastN(recent_types, TYPE_COOLDOWN))
        s2 == Put(s1, "recent_company_ids", LastN(recent_company_ids, COMPANY_COOLDOWN * 2))
        s3 == Put(s2, "current_question",
                  [type |-> q_type,
                   text |-> question_text,
                   company_a_id |-> company_a.id,
                   company_b_id |-> company_b.id,
                   correct_position |-> correct_position,
                   correct_company_id |-> correct_company.id])
    IN [session |-> s3,
        question |-> [text |-> question_text, company_a |-> company_a, company_b |-> company_b]]

(***************************************************************************)
(* generate_question.                                                      *)
(***************************************************************************)
\* the question stored and returned for one result of the pair search
\* (views.py 341-376); correct_first is random.choice([True, False])
QuestionFor(s, q_type, result, correct_first) ==
    LET correct_company == result[1]
        wrong_company == result[2]
        company_a == IF correct_first THEN correct_company ELSE wrong_company
        company_b == IF correct_first THEN wrong_company ELSE correct_company
        correct_position == IF correct_first THEN "a" ELSE "b"
        question_text == generate_question_text(q_type, correct_company)
        recent_types == Append(Get(s, "recent_types", <<>>), q_type)
        recent_company_ids ==
            Get(s, "recent_company_ids", <<>>) \o <<correct_company.id, wrong_company.id>>
        s1 == Put(s, "recent_types", LastN(recent_types, TYPE_COOLDOWN))
        s2 == Put(s1, "recent_company_ids", LastN(recent_company_ids, COMPANY_COOLDOWN * 2))
        s3 == Put(s2, "current_question",
                  [type |-> q_type,
                   text |-> question_text,
                   company_a_id |-> company_a.id,
                   company_b_id |-> company_b.id,
                   correct_position |-> correct_position,
                   correct_company_id |-> correct_company.id])
    IN [session |-> s3,
        question |-> [text |-> question_text, company_a |-> company_a, company_b |-> company_b]]

\* generate_question dropping the stored question when no type has a pair
GenerateForgettingOnFailure(s, table) ==
    LET recent_types == Get(s, "recent_types", <<>>)
        recent_company_ids == Get(s, "recent_company_ids", <<>>)
        \* every (type, result) a try of one of the types can give
        Tries(types) ==
            UNION {{<<q_type, result>> :
                      result \in get_companies_for_question(q_type, recent_company_ids, table)} :
                   q_type \in types}
        Outcomes(available_types, tries) ==
            {QuestionFor(s, try[1], try[2], correct_first) :
                try \in {t \in tries : t[2] # None}, correct_first \in BOOLEAN}
            \cup (IF \A q_type \in available_types : <<q_type, None>> \in tries
                  THEN {[session |-> Put(s, "current_question", None), question |-> None]}
                  ELSE {})
        Try(available_types) ==
            UNION {Outcomes(available_types, tries) : tries \in {Tries(available_types)}}
    IN Try(Range(get_available_question_types(recent_types)))

\* generate_question giving up after the first available type
GenerateFirstTypeOnly(s, table) ==
    LET recent_types == Get(s, "recent_types", <<>>)
        recent_company_ids == Get(s, "recent_company_ids", <<>>)
        OfType(q_type) ==
            {IF result = None THEN [session |-> s, question |-> None]
             ELSE QuestionFor(s, q_type, result, TRUE) :
                result \in get_companies_for_question(q_type, recent_company_ids, table)}
    IN OfType(get_available_question_types(recent_types)[1])

\* generate_question: every outcome of the call, as the session it leaves and
\* the question it returns.  The available types are tried in a shuffled
\* order and the first result that is not None ends the loop, so the outcome
\* is a question for any available type and any pair its search can return;
\* the call returns None only when every available type's search does.
generate_question(s, table) ==
    LET recent_types == Get(s, "recent_types", <<>>)
        recent_company_ids == Get(s, "recent_company_ids", <<>>)
        \* every (type, result) a try of one of the types can give
        Tries(types) ==
            UNION {{<<q_type, result>> :
                      result \in get_companies_for_question(q_type, recent_company_ids, table)} :
                   q_type \in types}
        Outcomes(available_types, tries) ==
            {QuestionFor(s, try[1], try[2], correct_first) :
                try \in {t \in tries : t[2] # None}, correct_first \in BOOLEAN}
            \cup (IF \A q_type \in available_types : <<q_type, None>> \in tries
                  THEN {[session |-> s, question |-> None]}
                  ELSE {})
        Try(available_types) ==
            UNION {Outcomes(available_types, tries) : tries \in {Tries(available_types)}}
    IN Try(Range(get_available_question_types(recent_types)))

\* get_available_question_types returns the module's list QUESTION_TYPES
\* itself (line 106), not a new list, when the list of line 105 is empty
ReturnsQuestionTypes(recent_types) ==
    Range(QUESTION_TYPES) \subseteq Range(LastN(recent_types, TYPE_COOLDOWN))

\* the module's list after random.shuffle(available_types) of line 335: the
\* shuffle is in place, so it reorders the module's list when
\* available_types is that list, and a list of the call's own otherwise.
\* (A reordered list holds the same types, and generate_question tries the
\* available types in a shuffled order whatever order it got them in.)
Shuffled(s, types) ==
    IF ReturnsQuestionTypes(Get(s, "recent_types", <<>>))
    THEN Orders(Range(types))
    ELSE {types}

(***************************************************************************)
(* The views.                                                              *)
(***************************************************************************)
\* redirect('index')
Redirect(view) == [view |-> view, status |-> 302, location |-> "index"]

\* render(request, 'a_main/index.html', context)
Render(context) == [view |-> "index", status |-> 200, context |-> context]

\* the requests index can get: a GET with or without ?continue=1, a POST
\* with no answer field, an empty one, a side, or another value
Requests ==
    {[method |-> "GET", GET |-> g, POST |-> <<>>] :
        g \in {<<>>, [continue |-> "1"]}}
    \cup
    {[method |-> "POST", GET |-> <<>>, POST |-> p] :
        p \in {<<>>} \cup {[answer |-> a] : a \in {"", "a", "b", "x"}}}

\* a request with no parameters
PlainGet == [method |-> "GET", GET |-> <<>>, POST |-> <<>>]

\* views.py 386-392
InitSession(s) ==
    IF "score" \notin DOMAIN s
    THEN Put(Put(Put(Put(Put(Put(s, "score", 0), "recent_types", <<>>),
             "recent_company_ids", <<>>), "current_question", None),
             "feedback", None), "promo_shown", FALSE)
    ELSE s

\* an accepted answer scored with a floor of 0
ScoreAnswerFloored(s, answer) ==
    LET current_q == s.current_question
        correct == answer = current_q.correct_position
        s1 == Put(s, "score", IF correct THEN s.score + 1
                              ELSE IF s.score > 0 THEN s.score - 1 ELSE 0)
        s2 == Put(s1, "feedback",
                  [correct |-> correct,
                   selected |-> answer,
                   correct_position |-> current_q.correct_position])
    IN IF s2.score >= PROMO_THRESHOLD /\ ~Get(s2, "promo_shown", FALSE)
       THEN Put(Put(s2, "show_promo", TRUE), "promo_shown", TRUE)
       ELSE s2

\* an accepted answer whose feedback records the correct side as selected
ScoreAnswerSelectingCorrect(s, answer) ==
    LET current_q == s.current_question
        correct == answer = current_q.correct_position
        s1 == Put(s, "score", IF correct THEN s.score + 1 ELSE s.score - 1)
        s2 == Put(s1, "feedback",
                  [correct |-> correct,
                   selected |-> current_q.correct_position,
                   correct_position |-> current_q.correct_position])
    IN IF s2.score >= PROMO_THRESHOLD /\ ~Get(s2, "promo_shown", FALSE)
       THEN Put(Put(s2, "show_promo", TRUE), "promo_shown", TRUE)
       ELSE s2

\* views.py 415-438: the session after an accepted answer
ScoreAnswer(s, answer) ==
    LET current_q == s.current_question
        correct == answer = current_q.correct_position
        s1 == Put(s, "score", IF correct THEN s.score + 1 ELSE s.score - 1)
        s2 == Put(s1, "feedback",
                  [correct |-> correct,
                   selected |-> answer,
                   correct_position |-> current_q.correct_position])
    IN IF s2.score >= PROMO_THRESHOLD /\ ~Get(s2, "promo_shown", FALSE)
       THEN Put(Put(s2, "show_promo", TRUE), "promo_shown", TRUE)
       ELSE s2

\* the feedback page with the two companies in each other's place
FeedbackContextSwapped(s, context, table) ==
    LET current_q == Get(s, "current_question", None)
        company_a == {c \in table : current_q # None /\ c.id = current_q.company_a_id}
        company_b == {c \in table : current_q # None /\ c.id = current_q.company_b_id}
        c1 == IF current_q # None THEN Put(context, "question", current_q.text) ELSE context
        c2 == IF company_a # {} /\ company_b # {}
              THEN Put(Put(c1, "company_a", CHOOSE c \in company_b : TRUE),
                       "company_b", CHOOSE c \in company_a : TRUE)
              ELSE c1
        c3 == IF Get(s, "show_promo", FALSE) THEN Put(c2, "show_promo", TRUE) ELSE c2
    IN Put(c3, "score", s.score)

\* the feedback page with each company looked up in a try of its own
FeedbackContextEachLookup(s, context, table) ==
    LET current_q == Get(s, "current_question", None)
        company_a == {c \in table : current_q # None /\ c.id = current_q.company_a_id}
        company_b == {c \in table : current_q # None /\ c.id = current_q.company_b_id}
        c1 == IF current_q # None THEN Put(context, "question", current_q.text) ELSE context
        c2a == IF company_a # {} THEN Put(c1, "company_a", CHOOSE c \in company_a : TRUE) ELSE c1
        c2 == IF company_b # {} THEN Put(c2a, "company_b", CHOOSE c \in company_b : TRUE) ELSE c2a
        c3 == IF Get(s, "show_promo", FALSE) THEN Put(c2, "show_promo", TRUE) ELSE c2
    IN Put(c3, "score", s.score)

\* views.py 444-467: the context of the feedback page
FeedbackContext(s, context, table) ==
    LET current_q == Get(s, "current_question", None)
        company_a == {c \in table : current_q # None /\ c.id = current_q.company_a_id}
        company_b == {c \in table : current_q # None /\ c.id = current_q.company_b_id}
        c1 == IF current_q # None THEN Put(context, "question", current_q.text) ELSE context
        c2 == IF company_a # {} /\ company_b # {}
              THEN Put(Put(c1, "company_a", CHOOSE c \in company_a : TRUE),
                       "company_b", CHOOSE c \in company_b : TRUE)
              ELSE c1
        c3 == IF Get(s, "show_promo", FALSE) THEN Put(c2, "show_promo", TRUE) ELSE c2
    IN Put(c3, "score", s.score)

\* the feedback view forgetting the question it has just shown again
FeedbackShownForgettingQuestion(s) ==
    Put(Put(s, "feedback", None), "current_question", None)

\* the feedback page shown without taking the promo signal back
FeedbackShownKeepingPromo(s) == Put(s, "feedback", None)

\* views.py 457-466: the session after the feedback page
FeedbackShown(s) ==
    Put(IF Get(s, "show_promo", FALSE) THEN Put(s, "show_promo", FALSE) ELSE s,
        "feedback", None)

ShowsPromo(resp) ==
    /\ resp # None
    /\ resp.status = 200
    /\ Get(resp.context, "show_promo", FALSE)

\* index with no test of ?continue=1
index_without_continue(req) ==
    LET s0 == InitSession(session)
        continuing == FALSE
        s1 == IF continuing THEN Put(s0, "feedback", None) ELSE s0
        feedback == IF continuing THEN None ELSE Get(s0, "feedback", None)
        context == [score |-> s1.score,
                    points_to_win |-> PROMO_THRESHOLD,
                    feedback |-> feedback,
                    game_over |-> FALSE]
        current_q == Get(s1, "current_question", None)
        answered == "answer" \in DOMAIN req.POST /\ req.POST.answer # ""
    IN request' = req /\
       IF req.method = "POST" /\ current_q # None /\ answered
       THEN LET s2 == ScoreAnswer(s1, req.POST.answer)
            IN /\ s2.score \in -MaxDebt..MaxScore
               /\ session' = s2
               /\ response' = Redirect("index")
               /\ UNCHANGED <<db, promos, picked, asked, other, question_types, inflight>>
       ELSE IF feedback # None
       THEN /\ session' = FeedbackShown(s1)
            /\ response' = Render(FeedbackContext(s1, context, db))
            /\ promos' = IF ShowsPromo(response') THEN promos + 1 ELSE promos
            /\ UNCHANGED <<db, picked, asked, other, question_types, inflight>>
       ELSE \E outcome \in generate_question(s1, db) :
            /\ session' = outcome.session
            /\ response' = Render(IF outcome.question # None
                                  THEN Put(Put(Put(context,
                                           "question", outcome.question.text),
                                           "company_a", outcome.question.company_a),
                                           "company_b", outcome.question.company_b)
                                  ELSE Put(context, "error", "Ei suutnud kusimust genereerida"))
            /\ asked' = IF outcome.question # None
                        THEN LastN(Append(asked, outcome.session.current_question.type), MaxAsked)
                        ELSE asked
            /\ question_types' \in Shuffled(s1, question_types)
            /\ UNCHANGED <<db, promos, picked, other, inflight>>

\* index: one request
index(req) ==
    LET s0 == InitSession(session)
        continuing == "continue" \in DOMAIN req.GET /\ req.GET["continue"] = "1"
        s1 == IF continuing THEN Put(s0, "feedback", None) ELSE s0
        feedback == IF continuing THEN None ELSE Get(s0, "feedback", None)
        context == [score |-> s1.score,
                    points_to_win |-> PROMO_THRESHOLD,
                    feedback |-> feedback,
                    game_over |-> FALSE]
        current_q == Get(s1, "current_question", None)
        answered == "answer" \in DOMAIN req.POST /\ req.POST.answer # ""
    IN request' = req /\
       IF req.method = "POST" /\ current_q # None /\ answered
       THEN LET s2 == ScoreAnswer(s1, req.POST.answer)
            IN /\ s2.score \in -MaxDebt..MaxScore
               /\ session' = s2
               /\ response' = Redirect("index")
               /\ UNCHANGED <<db, promos, picked, asked, other, question_types, inflight>>
       ELSE IF feedback # None
       THEN /\ session' = FeedbackShown(s1)
            /\ response' = Render(FeedbackContext(s1, context, db))
            /\ promos' = IF ShowsPromo(response') THEN promos + 1 ELSE promos
            /\ UNCHANGED <<db, picked, asked, other, question_types, inflight>>
       ELSE \E outcome \in generate_question(s1, db) :
            /\ session' = outcome.session
            /\ response' = Render(IF outcome.question # None
                                  THEN Put(Put(Put(context,
                                           "question", outcome.question.text),
                                           "company_a", outcome.question.company_a),
                                           "company_b", outcome.question.company_b)
                                  ELSE Put(context, "error", "Ei suutnud kusimust genereerida"))
            /\ asked' = IF outcome.question # None
                        THEN LastN(Append(asked, outcome.session.current_question.type), MaxAsked)
                        ELSE asked
            /\ question_types' \in Shuffled(s1, question_types)
            /\ UNCHANGED <<db, promos, picked, other, inflight>>

\* a reset that leaves the question in the session
ResetKeepingQuestion ==
    /\ session' = Put(Put(Put(Put(Put(Put(session, "score", 0), "recent_types", <<>>),
                      "recent_company_ids", <<>>),
                      "feedback", None), "promo_shown", FALSE), "show_promo", FALSE)
    /\ request' = PlainGet
    /\ response' = Redirect("reset_game")
    /\ promos' = 0
    /\ asked' = <<>>
    /\ UNCHANGED <<db, picked, other, question_types, inflight>>

\* reset_game
reset_game ==
    /\ session' = Put(Put(Put(Put(Put(Put(Put(session, "score", 0), "recent_types", <<>>),
                      "recent_company_ids", <<>>), "current_question", None),
                      "feedback", None), "promo_shown", FALSE), "show_promo", FALSE)
    /\ request' = PlainGet
    /\ response' = Redirect("reset_game")
    /\ promos' = 0
    /\ asked' = <<>>
    /\ UNCHANGED <<db, picked, other, question_types, inflight>>

\* the store changes under the game: a row that the current question refers
\* to is deleted
remove_company(c) ==
    /\ Get(session, "current_question", None) # None
    /\ c.id \in {session.current_question.company_a_id, session.current_question.company_b_id}
    /\ db' = db \ {c}
    /\ UNCHANGED <<session, request, response, promos, picked, asked, other, question_types, inflight>>

(***************************************************************************)
(* Tables.                                                                 *)
(***************************************************************************)
Company(id, legal_form, registered_date, county, activity, ceo, employees, revenue, profit, labor_taxes, vat_number) ==
    [id |-> id,
     name |-> "Firma",
     registry_code |-> ToString(10000000 + id),
     legal_form |-> legal_form,
     registered_date |-> registered_date,
     county |-> county,
     activity |-> activity,
     ceo |-> ceo,
     employees |-> employees,
     revenue |-> revenue,
     profit |-> profit,
     labor_taxes |-> labor_taxes,
     vat_number |-> vat_number,
     board_members |-> ""]

Hulgi == <<"h", "u", "l", "g", "i">>
Harju == <<<<"Tartu", "mnt", "1">>, <<"Tallinn">>, <<"Harju", "maakond">>>>
Tartu == <<<<"Tartu">>, <<"Tartu", "maakond">>>>
\* "Tallinn,": the part after the last comma is empty
NoCounty == <<<<"Tallinn">>, <<>>>>

\* The table of the game: companies 1 and 2 are a fair pair for age (1990
\* and 1997), employees (10 and 30) and revenue (100,000 and 3,000,000),
\* companies 3 and 4 for profit (-100,000 and 400,000) and county; no other
\* two companies are a fair pair of any type.  Company 5 has no revenue and
\* is not complete.
GAME_TABLE ==
    {Company(1, "OU", <<1, 3, 1990>>, NoCounty, Hulgi, "Mari Maasikas",
             <<10>>, <<10000000>>, <<15000000>>, <<15000000>>, "EE100000001"),
     Company(2, "OU", <<15, 6, 1997>>, NoCounty, Hulgi, "Mari Maasikas",
             <<30>>, <<300000000>>, <<15000000>>, <<15000000>>, "EE100000002"),
     Company(3, "OU", <<2, 1, 1994>>, Harju, Hulgi, "Mari Maasikas",
             <<20>>, <<150000000>>, <<-10000000>>, <<15000000>>, "EE100000003"),
     Company(4, "OU", <<9, 9, 1993>>, Tartu, Hulgi, "Mari Maasikas",
             <<25>>, <<199999999>>, <<40000000>>, <<15000000>>, "EE100000004"),
     Company(5, "AS", <<1, 1, 1970>>, Tartu, <<"i", "t">>, "Jaan Tamm",
             <<500>>, <<>>, <<900000000>>, <<90000000>>, "EE100000005")}

\* A table for long runs of questions: as the game table, and companies 3
\* and 4 are a fair pair for labor_taxes (240,000 and 60,000) too, and
\* company 4 has a CEO of its own, so that it is a fair ceo pair with each of
\* the others.
QUIZ_TABLE ==
    {Company(1, "OU", <<1, 3, 1990>>, NoCounty, Hulgi, "Mari Maasikas",
             <<10>>, <<10000000>>, <<15000000>>, <<15000000>>, "EE100000001"),
     Company(2, "OU", <<15, 6, 1997>>, NoCounty, Hulgi, "Mari Maasikas",
             <<30>>, <<300000000>>, <<15000000>>, <<15000000>>, "EE100000002"),
     Company(3, "OU", <<2, 1, 1994>>, Harju, Hulgi, "Mari Maasikas",
             <<20>>, <<150000000>>, <<-10000000>>, <<24000000>>, "EE100000003"),
     Company(4, "OU", <<9, 9, 1993>>, Tartu, Hulgi, "Jaan Tamm",
             <<25>>, <<199999999>>, <<40000000>>, <<6000000>>, "EE100000004"),
     Company(5, "AS", <<1, 1, 1970>>, Tartu, <<"i", "t">>, "Jaan Tamm",
             <<500>>, <<>>, <<900000000>>, <<90000000>>, "EE100000005")}

\* Two tables of two complete companies with revenue 100,000 and 3,000,000:
\* in the first the two differ in nothing else that a question compares, in
\* the second (companies 1 and 2 of the game table) they are a fair pair for
\* age and employees as well.
TWO_ALIKE ==
    {Company(1, "OU", <<1, 3, 1990>>, NoCounty, Hulgi, "Mari Maasikas",
             <<10>>, <<10000000>>, <<15000000>>, <<15000000>>, "EE100000001"),
     Company(2, "OU", <<15, 6, 1990>>, NoCounty, Hulgi, "Mari Maasikas",
             <<10>>, <<300000000>>, <<15000000>>, <<15000000>>, "EE100000002")}

TWO_APART == {c \in GAME_TABLE : c.id \in {1, 2}}

\* A table of two pairs: companies 1 and 2 are a fair pair for revenue
\* (100,000 and 3,000,000), companies 3 and 4 for profit (-100,000 and
\* 400,000), and no two companies are a fair pair of any other type.
STORE_TABLE ==
    {Company(1, "OU", <<1, 3, 1990>>, NoCounty, Hulgi, "Mari Maasikas",
             <<10>>, <<10000000>>, <<15000000>>, <<15000000>>, "EE100000001"),
     Company(2, "OU", <<15, 6, 1990>>, NoCounty, Hulgi, "Mari Maasikas",
             <<10>>, <<300000000>>, <<15000000>>, <<15000000>>, "EE100000002"),
     Company(3, "OU", <<2, 1, 1990>>, NoCounty, Hulgi, "Mari Maasikas",
             <<10>>, <<150000000>>, <<-10000000>>, <<15000000>>, "EE100000003"),
     Company(4, "OU", <<9, 9, 1990>>, NoCounty, Hulgi, "Mari Maasikas",
             <<10>>, <<150000000>>, <<40000000>>, <<15000000>>, "EE100000004")}

\* Rows for the direct calls of the pair search: values on both sides of
\* every threshold (7 and 6 years, 20 and 19 employees, a difference of
\* MIN_DIFF and of one cent less), a date that does not parse, equal values,
\* an incomplete row.
PROFILES ==
    <<[legal_form |-> "OU", registered_date |-> <<1, 3, 1990>>, county |-> Harju,
       activity |-> Hulgi, ceo |-> "Mari Maasikas", employees |-> <<10>>,
       revenue |-> <<10000000>>, profit |-> <<-10000000>>, labor_taxes |-> <<6000000>>,
       vat_number |-> "EE1"],
      [legal_form |-> "AS", registered_date |-> <<15, 6, 1997>>, county |-> Tartu,
       activity |-> <<"i", "t">>, ceo |-> "Jaan Tamm", employees |-> <<30>>,
       revenue |-> <<210000000>>, profit |-> <<40000000>>, labor_taxes |-> <<16000000>>,
       vat_number |-> "EE2"],
      [legal_form |-> "OU", registered_date |-> <<31, 12, 1996>>,
       county |-> <<<<"HARJU", "maakond">>>>,
       activity |-> Hulgi, ceo |-> "Mari Maasikas", employees |-> <<29>>,
       revenue |-> <<209999999>>, profit |-> <<39999999>>, labor_taxes |-> <<15999999>>,
       vat_number |-> "EE3"],
      [legal_form |-> "MTU", registered_date |-> <<31, 2, 2005>>, county |-> NoCounty,
       activity |-> <<"i", "t">>, ceo |-> "Jaan Tamm", employees |-> <<30>>,
       revenue |-> <<500000000>>, profit |-> <<40000000>>, labor_taxes |-> <<6000000>>,
       vat_number |-> "EE4"],
      [legal_form |-> "AS", registered_date |-> <<1, 1, 1970>>, county |-> Tartu,
       activity |-> <<"i", "t">>, ceo |-> "Jaan Tamm", employees |-> <<500>>,
       revenue |-> <<>>, profit |-> <<900000000>>, labor_taxes |-> <<90000000>>,
       vat_number |-> "EE5"]>>

\* rows of a table for the direct calls
MaxRows == 3

ProfileRow(id, k) ==
    LET p == PROFILES[k]
    IN Company(id, p.legal_form, p.registered_date, p.county, p.activity, p.ceo,
               p.employees, p.revenue, p.profit, p.labor_taxes, p.vat_number)

PairTables ==
    {{ProfileRow(id, f[id]) : id \in 1..MaxRows} : f \in [1..MaxRows -> 1..Len(PROFILES)]}

\* the cooldown lists of the direct calls
PairRecents == {<<>>, <<1>>, <<1, 2>>, <<1, 2, 3, 1>>}

(***************************************************************************)
(* Specifications.                                                         *)
(***************************************************************************)
Init ==
    /\ db = GAME_TABLE
    /\ session = <<>>
    /\ request = None
    /\ response = None
    /\ promos = 0
    /\ picked = None
    /\ asked = <<>>
    /\ other = <<>>
    /\ question_types = QUESTION_TYPES
    /\ inflight = <<>>

Next ==
    \/ \E req \in Requests : index(req)
    \/ reset_game

\* The game: a browser session against the game table.
Spec == Init /\ [][Next]_vars

\* page loads: the requests that answer nothing
PageLoads == {req \in Requests : req.method = "GET"}

InitQuiz ==
    /\ db = QUIZ_TABLE
    /\ session = <<>>
    /\ request = None
    /\ response = None
    /\ promos = 0
    /\ picked = None
    /\ asked = <<>>
    /\ other = <<>>
    /\ question_types = QUESTION_TYPES
    /\ inflight = <<>>

NextQuiz ==
    \/ \E req \in PageLoads : index(req)
    \/ reset_game

\* Question after question: page loads and resets against the quiz table.
SpecQuiz == InitQuiz /\ [][NextQuiz]_vars

\* one direct call of get_companies_for_question; a behaviour makes one
\* call, as a call reads nothing that an earlier call wrote
SelectPair(q_type, recent_company_ids) ==
    /\ picked = None
    /\ \E result \in get_companies_for_question(q_type, recent_company_ids, db) :
          picked' = [q_type |-> q_type,
                     recent_company_ids |-> recent_company_ids,
                     result |-> result]
    /\ UNCHANGED <<db, session, request, response, promos, asked, other, question_types, inflight>>

InitPair ==
    /\ db \in PairTables
    /\ session = <<>>
    /\ request = None
    /\ response = None
    /\ promos = 0
    /\ picked = None
    /\ asked = <<>>
    /\ other = <<>>
    /\ question_types = QUESTION_TYPES
    /\ inflight = <<>>

NextPair ==
    \E q_type \in Range(QUESTION_TYPES), recent_company_ids \in PairRecents :
        SelectPair(q_type, recent_company_ids)

\* The pair search alone: calls of get_companies_for_question on every table
\* of up to MaxRows rows drawn from PROFILES.
SpecPair == InitPair /\ [][NextPair]_vars

InitRound ==
    /\ db \in {TWO_ALIKE, TWO_APART}
    /\ session = <<>>
    /\ request = None
    /\ response = None
    /\ promos = 0
    /\ picked = None
    /\ asked = <<>>
    /\ other = <<>>
    /\ question_types = QUESTION_TYPES
    /\ inflight = <<>>

\* The game against a table of two companies.
SpecRound == InitRound /\ [][Next]_vars

InitStore ==
    /\ db = STORE_TABLE
    /\ session = <<>>
    /\ request = None
    /\ response = None
    /\ promos = 0
    /\ picked = None
    /\ asked = <<>>
    /\ other = <<>>
    /\ question_types = QUESTION_TYPES
    /\ inflight = <<>>

\* the requests of a player who plays by the rules: page loads, and
\* submissions of a side
Plays ==
    {req \in Requests :
        \/ req.method = "GET"
        \/ "answer" \in DOMAIN req.POST /\ req.POST.answer \in {"a", "b"}}

NextStore ==
    \/ \E req \in Plays : index(req)
    \/ reset_game
    \/ \E c \in db : remove_company(c)

\* The game against a store that loses rows while questions are pending.
SpecStore == InitStore /\ [][NextStore]_vars

\* the next request comes from the other browser: request.session is that
\* browser's session, and the session handled until now stays in the store
other_browser ==
    /\ session' = other
    /\ other' = session
    /\ UNCHANGED <<db, request, response, promos, picked, asked, question_types, inflight>>

\* with two browsers the score of each is followed from 0 up to MaxLead
MaxLead == 1

NextShared ==
    \/ \E req \in Plays : index(req) /\ session'.score \in 0..MaxLead
    \/ reset_game
    \/ other_browser

\* Two browsers, each with a session of its own, play against one process.
SpecShared == InitStore /\ [][NextShared]_vars

\* the handlers of the process that may run at the same time
Handlers == {"first", "second"}

\* a handler starts on an answer submission for the session: the session is
\* read from the store as it is then (request.session, first used at line
\* 386), and the submission is one that line 415 accepts.  early tells
\* whether the handler started before any other.
begin_answer(h, req) ==
    /\ h \notin DOMAIN inflight
    /\ req.method = "POST"
    /\ "answer" \in DOMAIN req.POST
    /\ req.POST.answer # ""
    /\ Get(InitSession(session), "current_question", None) # None
    /\ inflight' = (h :> [request |-> req,
                          session |-> InitSession(session),
                          early |-> inflight = <<>>,
                          saved |-> FALSE]) @@ inflight
    /\ UNCHANGED <<db, session, request, response, promos, picked, asked, other, question_types>>

\* the handler scores the answer on the session it has read (415-438) and
\* returns the redirect (440-441); the session it holds is written to the
\* store whole, over what the store holds
end_answer(h) ==
    /\ h \in DOMAIN inflight
    /\ ~inflight[h].saved
    /\ \E s2 \in {ScoreAnswer(inflight[h].session, inflight[h].request.POST.answer)} :
          /\ s2.score \in -MaxDebt..MaxScore
          /\ session' = s2
    /\ request' = inflight[h].request
    /\ response' = Redirect("index")
    /\ inflight' = [inflight EXCEPT ![h].saved = TRUE]
    /\ UNCHANGED <<db, promos, picked, asked, other, question_types>>

NextOverlap ==
    \/ inflight = <<>> /\ \E req \in Plays : index(req)
    \/ \E h \in Handlers, req \in Plays : begin_answer(h, req)
    \/ \E h \in Handlers : end_answer(h)

\* The game on a table of two companies, up to two answer submissions that
\* the process handles at the same time or one after the other.
SpecOverlap == InitRound /\ [][NextOverlap]_vars

NextPlay ==
    \/ \E req \in Plays : index(req)
    \/ reset_game

\* The game played by the rules against the table of two pairs.
SpecPlay == InitStore /\ [][NextPlay]_vars

\* Company.get_complete_companies with no test of board_members
CompleteWithoutBoardMembers(table) ==
    {c \in table :
        /\ c.name # ""
        /\ c.registry_code # ""
        /\ c.legal_form # ""
        /\ c.registered_date # <<>>
        /\ c.county # <<>>
        /\ c.activity # <<>>
        /\ c.ceo # ""
        /\ ~IsNull(c.employees)
        /\ ~IsNull(c.revenue)
        /\ ~IsNull(c.profit)
        /\ ~IsNull(c.labor_taxes)}

\* Company.get_complete_companies (models.py 60-84): the chain of exclude()
\* and filter() on the table
Company_get_complete_companies(table) ==
    {c \in table :
        /\ c.name # ""
        /\ c.registry_code # ""
        /\ c.legal_form # ""
        /\ c.registered_date # <<>>
        /\ c.county # <<>>
        /\ c.activity # <<>>
        /\ c.ceo # ""
        /\ c.board_members # ""
        /\ ~IsNull(c.employees)
        /\ ~IsNull(c.revenue)
        /\ ~IsNull(c.profit)
        /\ ~IsNull(c.labor_taxes)}

\* the columns that one or the other definition of complete reads, each
\* with the value of an empty column
EmptyColumn ==
    [name |-> "", registry_code |-> "", legal_form |-> "", registered_date |-> <<>>,
     county |-> <<>>, activity |-> <<>>, ceo |-> "", board_members |-> "",
     employees |-> <<>>, revenue |-> <<>>, profit |-> <<>>, labor_taxes |-> <<>>,
     vat_number |-> ""]

\* a row with every column filled in
FullRow(id) ==
    [Company(id, "OU", <<1, 3, 1990>>, Harju, Hulgi, "Mari Maasikas",
             <<10>>, <<10000000>>, <<15000000>>, <<15000000>>, "EE100000001")
     EXCEPT !.board_members = "Mari Maasikas, Jaan Tamm"]

\* the rows of the tables of the direct calls: each a full row with the
\* columns of one set empty: no column, one column, or board_members and
\* vat_number both
SparseRows ==
    {[f \in DOMAIN FullRow(1) |-> IF f \in empty THEN EmptyColumn[f] ELSE FullRow(1)[f]] :
        empty \in {{}} \cup {{f} : f \in DOMAIN EmptyColumn} \cup {{"board_members", "vat_number"}}}

\* every table of up to MaxRows of those rows, with ids of their own
SparseTables ==
    {{[rows[i] EXCEPT !.id = i] : i \in 1..Len(rows)} :
        rows \in UNION {[1..n -> SparseRows] : n \in 0..MaxRows}}

\* one direct call of each of the two get_complete_companies
CompleteCompanies ==
    /\ picked = None
    /\ picked' = [game |-> get_complete_companies(db),
                  persistence |-> Company_get_complete_companies(db)]
    /\ UNCHANGED <<db, session, request, response, promos, asked, other, question_types, inflight>>

InitComplete ==
    /\ db \in SparseTables
    /\ session = <<>>
    /\ request = None
    /\ response = None
    /\ promos = 0
    /\ picked = None
    /\ asked = <<>>
    /\ other = <<>>
    /\ question_types = QUESTION_TYPES
    /\ inflight = <<>>

\* The two definitions of a complete company, on every table of up to
\* MaxRows rows with columns empty.
SpecComplete == InitComplete /\ [][CompleteCompanies]_vars

\* a company with every column but vat_number filled in
NoVat(c, id) == [c EXCEPT !.id = id, !.vat_number = ""]

\* Tables with companies that have no VAT number: a company with one and
\* its like without, where no two companies are a fair pair of any type but
\* vat; and QUIZ_TABLE with the like of two of its companies without.
VAT_TABLES ==
    {{Company(1, "OU", <<1, 3, 1990>>, NoCounty, Hulgi, "Mari Maasikas",
              <<10>>, <<10000000>>, <<15000000>>, <<15000000>>, "EE100000001"),
      NoVat(Company(1, "OU", <<1, 3, 1990>>, NoCounty, Hulgi, "Mari Maasikas",
                    <<10>>, <<10000000>>, <<15000000>>, <<15000000>>, "EE100000001"), 2)},
     QUIZ_TABLE \cup {NoVat(c, c.id + 5) : c \in {r \in QUIZ_TABLE : r.id \in {4, 5}}}}

InitVat ==
    /\ db \in VAT_TABLES
    /\ session = <<>>
    /\ request = None
    /\ response = None
    /\ promos = 0
    /\ picked = None
    /\ asked = <<>>
    /\ other = <<>>
    /\ question_types = QUESTION_TYPES
    /\ inflight = <<>>

\* Page loads and resets on a table that holds companies without a VAT
\* number.
SpecVat == InitVat /\ [][NextQuiz]_vars

\* an activity of n characters that ends with the character last
LongActivity(n, last) == [i \in 1..n |-> IF i = n THEN last ELSE "x"]

\* Rows for the texts of the questions: activities of more than
\* ACTIVITY_TEXT_LIMIT characters that differ after the limit only, one of
\* exactly the limit; labor taxes MIN_DIFF apart of 1,050,000, 1,150,000
\* and 1,250,000 euros, each half way between two tenths of a million, and
\* of 1,150,001; revenues and profits at their thresholds.
TEXT_PROFILES ==
    <<[legal_form |-> "OU", registered_date |-> <<1, 3, 1990>>, county |-> Harju,
       activity |-> LongActivity(ACTIVITY_TEXT_LIMIT + 1, "a"), ceo |-> "Mari Maasikas",
       employees |-> <<10>>, revenue |-> <<105000000>>, profit |-> <<105000000>>,
       labor_taxes |-> <<105000000>>, vat_number |-> "EE1"],
      [legal_form |-> "OU", registered_date |-> <<15, 6, 1990>>, county |-> Harju,
       activity |-> LongActivity(ACTIVITY_TEXT_LIMIT + 1, "b"), ceo |-> "Mari Maasikas",
       employees |-> <<10>>, revenue |-> <<105000000>>, profit |-> <<105000000>>,
       labor_taxes |-> <<115000000>>, vat_number |-> "EE2"],
      [legal_form |-> "OU", registered_date |-> <<31, 12, 1997>>, county |-> Tartu,
       activity |-> LongActivity(ACTIVITY_TEXT_LIMIT, "x"), ceo |-> "Mari Maasikas",
       employees |-> <<30>>, revenue |-> <<305000000>>, profit |-> <<155000000>>,
       labor_taxes |-> <<125000000>>, vat_number |-> "EE3"],
      [legal_form |-> "AS", registered_date |-> <<2, 1, 1990>>, county |-> Harju,
       activity |-> Hulgi, ceo |-> "Jaan Tamm",
       employees |-> <<10>>, revenue |-> <<105000000>>, profit |-> <<105000000>>,
       labor_taxes |-> <<115000100>>, vat_number |-> "EE4"],
      [legal_form |-> "AS", registered_date |-> <<9, 9, 1990>>, county |-> Harju,
       activity |-> Hulgi, ceo |-> "Jaan Tamm",
       employees |-> <<29>>, revenue |-> <<95000000>>, profit |-> <<55000000>>,
       labor_taxes |-> <<95000000>>, vat_number |-> "EE5"]>>

TextRow(id, k) ==
    LET p == TEXT_PROFILES[k]
    IN Company(id, p.legal_form, p.registered_date, p.county, p.activity, p.ceo,
               p.employees, p.revenue, p.profit, p.labor_taxes, p.vat_number)

TextTables ==
    {{TextRow(id, f[id]) : id \in 1..MaxRows} : f \in [1..MaxRows -> 1..Len(TEXT_PROFILES)]}

InitText ==
    /\ db \in TextTables
    /\ session = <<>>
    /\ request = None
    /\ response = None
    /\ promos = 0
    /\ picked = None
    /\ asked = <<>>
    /\ other = <<>>
    /\ question_types = QUESTION_TYPES
    /\ inflight = <<>>

\* One direct call of get_companies_for_question on a table of rows whose
\* texts are close to one another.
SpecText == InitText /\ [][NextPair]_vars

\* the longest history of a direct call of get_available_question_types
MaxHistory == 6

\* the types of those histories
HistoryTypes == {"age", "revenue", "vat"}

Histories == UNION {[1..n -> HistoryTypes] : n \in 0..MaxHistory}

\* one direct call of get_available_question_types
AvailableTypes(recent_types) ==
    /\ picked = None
    /\ picked' = [recent_types |-> recent_types,
                  available |-> get_available_question_types(recent_types)]
    /\ UNCHANGED <<db, session, request, response, promos, asked, other, question_types, inflight>>

NextTypes == \E recent_types \in Histories : AvailableTypes(recent_types)

\* The type cooldown alone: calls of get_available_question_types on every
\* history of up to MaxHistory entries.
SpecTypes == Init /\ [][NextTypes]_vars

\* Retries: page loads against the game table with no reset and no answer;
\* the player keeps loading the page, so a page load that is possible is
\* made sooner or later.
NextRetry == \E req \in PageLoads : index(req)

SpecRetry == Init /\ [][NextRetry]_vars /\ WF_vars(NextRetry)

(***************************************************************************)
(* Properties of the game.                                                 *)
(***************************************************************************)
\* the fields of a session, with the values an unset field reads as
Score(s) == Get(s, "score", 0)
Pending(s) == Get(s, "feedback", None)
Question(s) == Get(s, "current_question", None)
PromoShown(s) == Get(s, "promo_shown", FALSE)
PromoSignal(s) == Get(s, "show_promo", FALSE)

\* the side a request submits, "" when it submits none
Side(req) == IF "answer" \in DOMAIN req.POST THEN req.POST.answer ELSE ""

\* the step is index handling an answer submission (a POST)
Submission == response'.view = "index" /\ request'.method = "POST"

\* the step is index accepting an answer: it scores and redirects
Accepted == response'.view = "index" /\ response'.status = 302

\* the step is index returning the feedback page
FeedbackPage(resp) ==
    /\ resp # None
    /\ resp.view = "index"
    /\ resp.status = 200
    /\ resp.context.feedback # None

\* the step is index returning a newly generated question
QuestionPage(resp) ==
    /\ resp # None
    /\ resp.view = "index"
    /\ resp.status = 200
    /\ resp.context.feedback = None
    /\ "question" \in DOMAIN resp.context

\* C1: an answer submission with a current question and a side changes score
\* by exactly +1 when the side is current_question.correct_position and by
\* exactly -1 otherwise, whatever the score is; a submission with no current
\* question or no side leaves score as it is.
C1_ScoreStep ==
    [][Submission =>
         IF Question(session) # None /\ Side(request') # ""
         THEN Score(session') = Score(session)
                  + (IF Side(request') = Question(session).correct_position
                     THEN 1 ELSE -1)
         ELSE Score(session') = Score(session)]_vars

\* C1: a wrong answer at score 0 has been scored, and the score is below 0
C1_BelowZero ==
    /\ response # None
    /\ response.view = "index"
    /\ response.status = 302
    /\ request.method = "POST"
    /\ ~session.feedback.correct
    /\ session.score = -1

\* C2: a submission of a side for a question that has been answered already
\* (its feedback is pending, or the last response was its feedback page)
\* changes neither score nor feedback.
C2_ScoredOnce ==
    [][(/\ Submission
        /\ Side(request') \in {"a", "b"}
        /\ Pending(session) # None \/ FeedbackPage(response))
       => /\ Score(session') = Score(session)
          /\ Pending(session') = Pending(session)]_vars

\* C3: a submission of a side that is not empty and is neither "a" nor "b"
\* changes none of score, feedback, promo_shown and the promo signal.
C3_UnrecognizedSideIgnored ==
    [][(Submission /\ Side(request') \notin {"", "a", "b"})
       => /\ Score(session') = Score(session)
          /\ Pending(session') = Pending(session)
          /\ PromoShown(session') = PromoShown(session)
          /\ PromoSignal(session') = PromoSignal(session)]_vars

\* C4: a submission with no current question, or with no side, changes no
\* field of the session.
C4_InvalidSubmissionNoChange ==
    [][(Submission /\ (Question(session) = None \/ Side(request') = ""))
       => /\ Score(session') = Score(session)
          /\ Pending(session') = Pending(session)
          /\ Question(session') = Question(session)
          /\ Get(session', "recent_types", <<>>) = Get(session, "recent_types", <<>>)
          /\ Get(session', "recent_company_ids", <<>>)
                 = Get(session, "recent_company_ids", <<>>)
          /\ PromoShown(session') = PromoShown(session)
          /\ PromoSignal(session') = PromoSignal(session)]_vars

\* C5: between two resets at most one response carries the promo signal; an
\* accepted answer raises the signal exactly when the score after it is at
\* least PROMO_THRESHOLD and no earlier answer since the last reset raised
\* it; promo_shown stays set until a reset; a reset clears it, so that the
\* signal can be raised once more.
C5_PromoOnce ==
    [][/\ promos' <= 1
       /\ Accepted =>
            ((~PromoSignal(session) /\ PromoSignal(session'))
                <=> (Score(session') >= PROMO_THRESHOLD /\ ~PromoShown(session)))
       /\ (response'.view = "index" /\ PromoShown(session)) => PromoShown(session')
       /\ response'.view = "reset_game" =>
            /\ ~PromoShown(session')
            /\ ~PromoSignal(session')
            /\ promos' = 0]_vars

\* C5: the signal has been returned, and a later right answer has brought
\* the score back to PROMO_THRESHOLD without raising it again
C5_BackAtThreshold ==
    /\ promos = 1
    /\ response # None
    /\ response.view = "index"
    /\ response.status = 302
    /\ session.feedback.correct
    /\ session.score = PROMO_THRESHOLD
    /\ session.promo_shown
    /\ ~PromoSignal(session)

C7_TypeCooldown ==
    [][QuestionPage(response') =>
         LET recent_types == Get(session, "recent_types", <<>>)
         IN \/ session'.current_question.type \notin Range(LastN(recent_types, 4))
            \/ \A t \in Range(QUESTION_TYPES) :
                  t \in Range(LastN(recent_types, TYPE_COOLDOWN))]_vars

\* C7: a question has been generated after four or more others
C7_FullHistory ==
    /\ QuestionPage(response)
    /\ Len(session.recent_types) = TYPE_COOLDOWN

\* C8: neither company of a newly generated question is among the last 4
\* entries recent_company_ids had before the call.
C8_CompanyCooldown ==
    [][QuestionPage(response') =>
         {session'.current_question.company_a_id,
          session'.current_question.company_b_id}
             \cap Range(LastN(Get(session, "recent_company_ids", <<>>), 4)) = {}]_vars

(***************************************************************************)
(* Properties of the pair search.                                          *)
(***************************************************************************)
ThresholdTypes == {"age", "employees", "revenue", "profit", "labor_taxes"}

\* a direct call of a threshold type has returned a pair
ThresholdPair ==
    /\ picked # None
    /\ picked.q_type \in ThresholdTypes
    /\ picked.result # None

\* C9: a pair returned for a threshold type is fair: for age both
\* registration years parse and differ by 7 or more; employee counts differ
\* by 20 or more, revenues by 2,000,000 euros or more, profits by 500,000 or
\* more, labor taxes by 100,000 or more.
C9_FairPair ==
    ThresholdPair =>
        LET c1 == picked.result[1]
            c2 == picked.result[2]
        IN CASE picked.q_type = "age" ->
                  /\ parse_date(c1.registered_date) # None
                  /\ parse_date(c2.registered_date) # None
                  /\ Abs(c1.registered_date[3] - c2.registered_date[3]) >= 7
             [] picked.q_type = "employees" ->
                  Abs(c1.employees[1] - c2.employees[1]) >= 20
             [] picked.q_type = "revenue" ->
                  Abs(c1.revenue[1] - c2.revenue[1]) >= 2000000 * 100
             [] picked.q_type = "profit" ->
                  Abs(c1.profit[1] - c2.profit[1]) >= 500000 * 100
             [] picked.q_type = "labor_taxes" ->
                  Abs(c1.labor_taxes[1] - c2.labor_taxes[1]) >= 100000 * 100

\* C9: a revenue pair exactly 2,000,000 euros apart has been returned, from
\* a table that holds a revenue 1 cent nearer as well
C9_AtThreshold ==
    /\ ThresholdPair
    /\ picked.q_type = "revenue"
    /\ Abs(picked.result[1].revenue[1] - picked.result[2].revenue[1]) = 2000000 * 100
    /\ \E c \in db : ~IsNull(c.revenue) /\
          Abs(c.revenue[1] - picked.result[2].revenue[1]) = 2000000 * 100 - 1

\* C10: in a pair returned for a threshold type the first company, the
\* correct one, has the strictly earlier registration year for age and the
\* strictly higher value for the other types.
C10_WinnerFirst ==
    ThresholdPair =>
        LET c1 == picked.result[1]
            c2 == picked.result[2]
        IN IF picked.q_type = "age"
           THEN c1.registered_date[3] < c2.registered_date[3]
           ELSE c1[picked.q_type][1] > c2[picked.q_type][1]

\* C10: an age pair has been returned from a table whose only fair age pair
\* it is, with the older company in the row of the higher id, so that some
\* shuffles reach the younger company first
C10_OlderFoundSecond ==
    /\ ThresholdPair
    /\ picked.q_type = "age"
    /\ picked.recent_company_ids = <<>>
    /\ picked.result[1].id > picked.result[2].id
    /\ \A c \in db :
          \/ c.id \in {picked.result[1].id, picked.result[2].id}
          \/ (~AgeFair(c, picked.result[1]) /\ ~AgeFair(c, picked.result[2]))

\* a direct call of a categorical type has returned a pair
CategoricalPair ==
    /\ picked # None
    /\ picked.q_type \in {"county", "ceo", "activity", "legal_form"}
    /\ picked.result # None

\* C11: a pair returned for a categorical type differs in the attribute
\* compared: for county the two normalized county names (last comma part,
\* " maakond" removed, lower case) are not empty and not equal; for ceo,
\* activity and legal_form the two values are not empty and not equal.
C11_CategoricalPairDiffers ==
    CategoricalPair =>
        LET c1 == picked.result[1]
            c2 == picked.result[2]
        IN CASE picked.q_type = "county" ->
                  /\ extract_county_name(c1.county) \notin {None, <<>>}
                  /\ extract_county_name(c2.county) \notin {None, <<>>}
                  /\ extract_county_name(c1.county) # extract_county_name(c2.county)
             [] picked.q_type = "ceo" ->
                  c1.ceo # "" /\ c2.ceo # "" /\ c1.ceo # c2.ceo
             [] picked.q_type = "activity" ->
                  c1.activity # <<>> /\ c2.activity # <<>> /\ c1.activity # c2.activity
             [] picked.q_type = "legal_form" ->
                  c1.legal_form # "" /\ c2.legal_form # "" /\ c1.legal_form # c2.legal_form

\* C11: a county pair has been returned from a table that holds two rows
\* whose county strings differ and whose county names are the same
C11_SameNameOtherString ==
    /\ CategoricalPair
    /\ picked.q_type = "county"
    /\ picked.recent_company_ids = <<>>
    /\ \E c, d \in db :
          /\ c.county # d.county
          /\ extract_county_name(c.county) = extract_county_name(d.county)
          /\ extract_county_name(c.county) # None

\* a row with every field the game uses filled in
CompleteRecord(c) ==
    /\ c.name # "" /\ c.registry_code # "" /\ c.legal_form # ""
    /\ c.registered_date # <<>> /\ c.county # <<>> /\ c.activity # <<>> /\ c.ceo # ""
    /\ c.employees # <<>> /\ c.revenue # <<>> /\ c.profit # <<>> /\ c.labor_taxes # <<>>
    /\ c.vat_number # ""

\* C12: the two companies of a generated question are complete records:
\* name, registry code, legal form, registered date, county, activity and
\* CEO not empty, employees, revenue, profit and labor taxes not NULL, VAT
\* number not empty.
C12_CompleteCompanies ==
    QuestionPage(response) =>
        /\ CompleteRecord(response.context.company_a)
        /\ CompleteRecord(response.context.company_b)

\* C12: an age question has been generated from a table that holds a row
\* which is not complete and is old enough to be a fair pair with either
\* company of the question
C12_IncompleteLeftOut ==
    /\ QuestionPage(response)
    /\ session.current_question.type = "age"
    /\ \E c \in db :
          /\ ~CompleteRecord(c)
          /\ AgeFair(c, response.context.company_a)
          /\ AgeFair(c, response.context.company_b)

\* the session holds value v under key k
Holds(s, k, v) == k \in DOMAIN s /\ s[k] = v

\* C13: when reset_game has answered, whatever the session was before, score
\* is 0, recent_types and recent_company_ids are empty, current_question and
\* feedback are None, promo_shown and the promo signal are false.
C13_ResetClears ==
    (response # None /\ response.view = "reset_game") =>
        /\ Holds(session, "score", 0)
        /\ Holds(session, "recent_types", <<>>)
        /\ Holds(session, "recent_company_ids", <<>>)
        /\ Holds(session, "current_question", None)
        /\ Holds(session, "feedback", None)
        /\ Holds(session, "promo_shown", FALSE)
        /\ Holds(session, "show_promo", FALSE)

\* C13: reset_game has answered
C13_ResetDone ==
    /\ response # None
    /\ response.view = "reset_game"
    /\ response.status = 302
    /\ promos = 0
    /\ DOMAIN session = {"score", "recent_types", "recent_company_ids",
                         "current_question", "feedback", "promo_shown", "show_promo"}

\* index has returned the page of the could-not-generate error
ErrorPage(resp) ==
    /\ resp # None
    /\ resp.view = "index"
    /\ resp.status = 200
    /\ "error" \in DOMAIN resp.context

\* C14: after the could-not-generate error no question is pending: an
\* answer submitted next does not change score.
C14_NoAnswerAfterFailure ==
    [][(ErrorPage(response) /\ Submission /\ Side(request') # "")
       => Score(session') = Score(session)]_vars

\* C15: after the could-not-generate error, page loads repeated with no
\* reset lead to a question again.
C15_RetryRecovers == ErrorPage(response) ~> QuestionPage(response)

\* the step is index calling generate_question: a page with no feedback
Generation ==
    /\ response'.view = "index"
    /\ response'.status = 200
    /\ response'.context.feedback = None

\* the types outside the cooldown window for which get_companies_for_question
\* returns a pair, for the histories of session s
TypesWithPair(s) ==
    {q_type \in Range(get_available_question_types(Get(s, "recent_types", <<>>))) :
        None \notin get_companies_for_question(
                        q_type, Get(s, "recent_company_ids", <<>>), db)}

\* C16: generate_question fails only when no type outside the cooldown window
\* yields a pair; when one does, the question returned is of such a type,
\* and never of a type inside the window.
C16_TriesAvailableTypes ==
    [][Generation =>
         IF TypesWithPair(session) = {}
         THEN ErrorPage(response') /\ session'.current_question = Question(session)
         ELSE /\ QuestionPage(response')
              /\ session'.current_question.type \in TypesWithPair(session)
              /\ session'.current_question.type
                     \notin Range(LastN(Get(session, "recent_types", <<>>), TYPE_COOLDOWN))]_vars

\* C16: a fourth question has been generated, of the one type left that is
\* outside the window and has a pair
C16_LastTypeFound ==
    /\ QuestionPage(response)
    /\ Len(session.recent_types) = 4
    /\ Cardinality({q_type \in Range(QUESTION_TYPES) \ Range(SubSeq(session.recent_types, 1, 3)) :
                       None \notin get_companies_for_question(
                           q_type, SubSeq(session.recent_company_ids, 1, 2), db)}) = 1

\* the first question since the start of a game has been generated
FirstQuestion == QuestionPage(response) /\ Len(session.recent_types) = 1

\* the company of the table with revenue 3,000,000
Richer == CHOOSE c \in db : c.revenue = <<3000000 * 100>>

\* C17 as stated: on a table of two complete companies with revenue 100,000
\* and 3,000,000 the first question of a game is of type revenue and marks
\* the company with 3,000,000 correct.
C17_RevenueQuestion ==
    FirstQuestion =>
        /\ session.current_question.type = "revenue"
        /\ session.current_question.correct_company_id = Richer.id

\* C17: on such a table the first question of a game pairs the two
\* companies; it is of one of the types for which the two are a fair pair,
\* so of type revenue when they are a fair pair for revenue alone; and when
\* it is of type revenue the company with 3,000,000 is marked correct.
C17_PairsTheTwo ==
    FirstQuestion =>
        /\ {response.context.company_a, response.context.company_b} = db
        /\ session.current_question.type \in TypesWithPair(<<>>)
        /\ "revenue" \in TypesWithPair(<<>>)
        /\ session.current_question.type = "revenue" =>
              session.current_question.correct_company_id = Richer.id

\* C17: the revenue question has been generated on the table whose companies
\* differ in revenue alone, with the company with 3,000,000 on the right
C17_RevenueAlone ==
    /\ FirstQuestion
    /\ TypesWithPair(<<>>) = {"revenue"}
    /\ session.current_question.type = "revenue"
    /\ session.current_question.correct_position = "b"
    /\ response.context.company_b.revenue = <<3000000 * 100>>
    /\ response.context.company_a.revenue = <<100000 * 100>>

\* C18: an accepted answer stores the feedback of the submitted side:
\* correct is true exactly when the side is current_question.correct_position,
\* selected is the side, correct_position is that of the question, which
\* stays the current one; a side other than the correct one gives correct
\* false and takes 1 from score.
C18_FeedbackOfAnswer ==
    [][Accepted =>
         /\ session'.feedback.selected = Side(request')
         /\ session'.feedback.correct_position = session.current_question.correct_position
         /\ session'.feedback.correct
              <=> (Side(request') = session.current_question.correct_position)
         /\ session'.current_question = session.current_question
         /\ Side(request') # session.current_question.correct_position =>
              /\ ~session'.feedback.correct
              /\ Score(session') = Score(session) - 1]_vars

\* C18: side a has been submitted for a question whose correct side is b
C18_WrongSide ==
    /\ response # None
    /\ response.view = "index"
    /\ response.status = 302
    /\ request.POST = [answer |-> "a"]
    /\ session.current_question.correct_position = "b"
    /\ session.feedback = [correct |-> FALSE, selected |-> "a", correct_position |-> "b"]

(***************************************************************************)
(* Properties of the type cooldown.                                        *)
(***************************************************************************)
\* the place of a type in QUESTION_TYPES
TypeIndex(t) == CHOOSE k \in 1..Len(QUESTION_TYPES) : QUESTION_TYPES[k] = t

\* the entries of a history at its last 5 places
LastFive(recent_types) ==
    {recent_types[i] : i \in {j \in 1..Len(recent_types) : j > Len(recent_types) - 5}}

\* C19: get_available_question_types returns a list that is not empty; it
\* holds, in QUESTION_TYPES order and once each, exactly the types that are
\* not among the last 5 entries of recent_types, and is QUESTION_TYPES when
\* there is no such type.
C19_AvailableTypes ==
    (picked # None /\ "available" \in DOMAIN picked) =>
        LET available == picked.available
            window == LastFive(picked.recent_types)
        IN /\ available # <<>>
           /\ IF Range(QUESTION_TYPES) \subseteq window
              THEN available = QUESTION_TYPES
              ELSE /\ Range(available) = Range(QUESTION_TYPES) \ window
                   /\ \A i, j \in 1..Len(available) :
                         i < j => TypeIndex(available[i]) < TypeIndex(available[j])

\* C19: the call was made with a history of 6 entries whose oldest type is
\* not among the last 5, and has returned that type among 8 others
C19_AgedOut ==
    /\ picked # None
    /\ "available" \in DOMAIN picked
    /\ Len(picked.recent_types) = 6
    /\ picked.recent_types[1] \notin LastFive(picked.recent_types)
    /\ picked.recent_types[1] \in Range(picked.available)
    /\ Len(picked.available) = 8

(***************************************************************************)
(* Properties of the histories.                                            *)
(***************************************************************************)
\* the id of the wrong company of a stored question
WrongCompanyId(q) ==
    IF q.correct_company_id = q.company_a_id THEN q.company_b_id ELSE q.company_a_id

\* C20: a generated question puts its type once at the end of recent_types
\* and the id of its correct company followed by the id of its wrong company
\* at the end of recent_company_ids; what was there before stays in front,
\* cut to the last 5 types and the last 4 ids.
C20_HistoriesAppended ==
    [][QuestionPage(response') =>
         LET q == session'.current_question
             types == session'.recent_types
             ids == session'.recent_company_ids
         IN /\ types = LastN(Get(session, "recent_types", <<>>) \o <<q.type>>, 5)
            /\ ids = LastN(Get(session, "recent_company_ids", <<>>)
                             \o <<q.correct_company_id, WrongCompanyId(q)>>, 4)
            /\ types[Len(types)] = q.type
            /\ ids[Len(ids) - 1] = q.correct_company_id
            /\ ids[Len(ids)] = WrongCompanyId(q)]_vars

\* C20: a question with its correct company on the right has been generated
\* with both histories full
C20_CorrectOnTheRight ==
    /\ QuestionPage(response)
    /\ session.current_question.correct_position = "b"
    /\ Len(session.recent_types) = 5
    /\ Len(session.recent_company_ids) = 4
    /\ session.recent_company_ids[3] = session.current_question.company_b_id
    /\ session.recent_company_ids[4] = session.current_question.company_a_id

(***************************************************************************)
(* Properties of the histories.                                            *)
(***************************************************************************)
\* C21: in every state of the session recent_types holds at most
\* TYPE_COOLDOWN entries and recent_company_ids at most COMPANY_COOLDOWN * 2,
\* however many questions have been generated.
C21_HistoriesBounded ==
    /\ Len(Get(session, "recent_types", <<>>)) <= TYPE_COOLDOWN
    /\ Len(Get(session, "recent_company_ids", <<>>)) <= COMPANY_COOLDOWN * 2

\* C21: more questions have been generated since the last reset than
\* recent_types holds, and both histories are full
C21_SixthQuestion ==
    /\ Len(asked) > TYPE_COOLDOWN
    /\ Len(session.recent_types) = TYPE_COOLDOWN
    /\ Len(session.recent_company_ids) = COMPANY_COOLDOWN * 2

(***************************************************************************)
(* Properties of the game on a store that changes.                         *)
(***************************************************************************)
\* the current question of s refers to a row that table does not hold
Stale(s, table) ==
    /\ Question(s) # None
    /\ ~({Question(s).company_a_id, Question(s).company_b_id} \subseteq {c.id : c \in table})

\* C22: when a company of the current question has been removed from the
\* store, the feedback view (a step of index, which leaves the store as it
\* is) still returns its page, with no error: the
\* stored question text, the pending feedback and the score, and neither
\* company; it clears the feedback, and the page load after it returns a
\* new question or the could-not-generate error.
C22_StaleReference ==
    [][/\ (/\ Stale(session, db)
           /\ Pending(session) # None
           /\ db' = db
           /\ response'.view = "index"
           /\ request' = PlainGet)
          => /\ response'.status = 200
             /\ "error" \notin DOMAIN response'.context
             /\ response'.context.question = session.current_question.text
             /\ response'.context.feedback = Pending(session)
             /\ response'.context.score = Score(session)
             /\ "company_a" \notin DOMAIN response'.context
             /\ "company_b" \notin DOMAIN response'.context
             /\ Pending(session') = None
       /\ (/\ Stale(session, db)
           /\ FeedbackPage(response)
           /\ db' = db
           /\ response'.view = "index"
           /\ request'.method = "GET")
          => QuestionPage(response') \/ ErrorPage(response')]_vars

\* C22: the feedback page of a question that lost a company has been
\* returned, without the two companies
C22_FeedbackWithoutCompanies ==
    /\ FeedbackPage(response)
    /\ Stale(session, db)
    /\ "question" \in DOMAIN response.context
    /\ "company_a" \notin DOMAIN response.context
    /\ Cardinality(db) = Cardinality(STORE_TABLE) - 1

(***************************************************************************)
(* Properties of two sessions in one process.                              *)
(***************************************************************************)
\* C23: no request of one browser (a page load that initializes the
\* session or generates a question, an answer, a continue, a reset) changes
\* the session of the other browser, and none changes the module's list of
\* question types, which the other session's next generate_question reads:
\* every step leaves both as they are, but for the step that hands
\* request.session to the other browser, which changes no field of either
\* session.
C23_SessionsIndependent ==
    [][\/ /\ other' = other
          /\ question_types' = question_types
       \/ /\ session' = other
          /\ other' = session
          /\ question_types' = question_types]_vars

\* C23: a question has been generated for one browser while the session of
\* the other holds a question, histories and a score of its own
C23_BothPlaying ==
    /\ QuestionPage(response)
    /\ Question(other) # None
    /\ Len(Get(session, "recent_types", <<>>)) = 2
    /\ Len(Get(other, "recent_types", <<>>)) = 2
    /\ Score(other) = 1
    /\ Score(session) = 0
    /\ Question(session) # Question(other)

(***************************************************************************)
(* Properties of requests handled at the same time.                        *)
(***************************************************************************)
\* the fields of a session that an answer writes
Outcome(s) == <<Score(s), Pending(s), PromoShown(s), PromoSignal(s)>>

\* the session after the submissions of handler h1 and then of handler h2,
\* one after the other, from the session that s0 is
OneAfterTheOther(s0, h1, h2) ==
    ScoreAnswer(ScoreAnswer(s0, inflight[h1].request.POST.answer),
                inflight[h2].request.POST.answer)

\* C24: when two answer submissions of one session have both been handled,
\* at the same time or not, score, feedback and the promo flags are those of
\* the two submissions made one after the other, in one order or the other,
\* from the session as it was before both.
C24_Serialized ==
    (DOMAIN inflight = Handlers /\ \A h \in Handlers : inflight[h].saved)
    => \E h0 \in Handlers :
          /\ inflight[h0].early
          /\ \E h1, h2 \in Handlers :
                /\ h1 # h2
                /\ Outcome(session) = Outcome(OneAfterTheOther(inflight[h0].session, h1, h2))

(***************************************************************************)
(* Properties of continue and of the feedback view.                        *)
(***************************************************************************)
\* GET /?continue=1
Continue == [method |-> "GET", GET |-> [continue |-> "1"], POST |-> <<>>]

\* C25: a continue request leaves no feedback pending and changes neither
\* score nor promo_shown; it returns no feedback, and either a newly
\* generated question, which is then the current question and is not the
\* question that was current before, or the could-not-generate error; a
\* session that held a question holds one after it.
C25_Continue ==
    [][(response'.view = "index" /\ request' = Continue)
       => /\ Pending(session') = None
          /\ Score(session') = Score(session)
          /\ PromoShown(session') = PromoShown(session)
          /\ response'.status = 200
          /\ response'.context.feedback = None
          /\ \/ ErrorPage(response')
             \/ /\ QuestionPage(response')
                /\ Question(session') # Question(session)
                /\ response'.context.question = session'.current_question.text
          /\ Question(session) # None => Question(session') # None]_vars

\* C25: a continue request has returned a new question while the feedback
\* of the answer that reached the promo threshold had not been viewed (the
\* promo signal of that answer is still pending)
C25_ContinuedPastFeedback ==
    /\ request = Continue
    /\ QuestionPage(response)
    /\ Pending(session) = None
    /\ PromoSignal(session)
    /\ Len(asked) = 2

(***************************************************************************)
(* Completeness of the pair search.                                        *)
(***************************************************************************)
\* the fairness predicate of a type, as the table of the types states it
FairPair(q_type, c1, c2) ==
    CASE q_type = "age" ->
           /\ parse_date(c1.registered_date) # None
           /\ parse_date(c2.registered_date) # None
           /\ Abs(c1.registered_date[3] - c2.registered_date[3]) >= 7
      [] q_type = "employees" -> Abs(c1.employees[1] - c2.employees[1]) >= 20
      [] q_type = "revenue" -> Abs(c1.revenue[1] - c2.revenue[1]) >= 2000000 * 100
      [] q_type = "profit" -> Abs(c1.profit[1] - c2.profit[1]) >= 500000 * 100
      [] q_type = "labor_taxes" -> Abs(c1.labor_taxes[1] - c2.labor_taxes[1]) >= 100000 * 100
      [] q_type = "county" ->
           /\ extract_county_name(c1.county) \notin {None, <<>>}
           /\ extract_county_name(c2.county) \notin {None, <<>>}
           /\ extract_county_name(c1.county) # extract_county_name(c2.county)
      [] q_type = "ceo" -> c1.ceo # c2.ceo
      [] q_type = "activity" -> c1.activity # c2.activity
      [] q_type = "legal_form" -> c1.legal_form # c2.legal_form

\* the rows a direct call samples: the complete rows of the table that are
\* not among the last COMPANY_COOLDOWN ids (all of them: a table is smaller
\* than a sample)
Sampled ==
    {c \in db : /\ CompleteRecord(c)
                /\ \A k \in 1..Len(picked.recent_company_ids) :
                      k > Len(picked.recent_company_ids) - 2 => c.id # picked.recent_company_ids[k]}

\* C26: a direct call for a type other than vat returns None exactly when
\* no two distinct rows of its sample are a fair pair of the type; when two
\* are, it returns a pair.
C26_SearchComplete ==
    (picked # None /\ picked.q_type # "vat")
    => (picked.result = None
        <=> ~\E c1, c2 \in Sampled : c1.id # c2.id /\ FairPair(picked.q_type, c1, c2))

\* C26: a revenue pair has been returned from a sample of three rows of
\* which one is a fair pair with neither of the others
C26_RowWithoutPartner ==
    /\ picked # None
    /\ picked.q_type = "revenue"
    /\ picked.result # None
    /\ Cardinality(Sampled) = 3
    /\ \E c \in Sampled : \A d \in Sampled : ~FairPair("revenue", c, d)

\* C27: the promo signal that an answer raises is returned by the first
\* page that index returns after that answer, also when the request is a
\* continue: whenever the signal is pending, the page returned carries
\* show_promo, so that the signal does not stay pending for the feedback of
\* a later answer.
C27_PromoWithItsAnswer ==
    [][(/\ PromoSignal(session)
        /\ response'.view = "index"
        /\ response'.status = 200)
       => ShowsPromo(response')]_vars

(***************************************************************************)
(* The two definitions of a complete company.                              *)
(***************************************************************************)
\* C28 as stated: Company.get_complete_companies is views'
\* get_complete_companies with board_members not empty required as well:
\* its rows are the rows of the game's definition that have board members,
\* so that every row complete for the persistence layer is complete for
\* the game.
C28_PersistenceWithinGame ==
    picked # None =>
        /\ picked.persistence = {c \in picked.game : c.board_members # ""}
        /\ picked.persistence \subseteq picked.game

\* C28: the two definitions differ in two columns: the persistence layer's
\* requires board_members not empty and not vat_number, the game's requires
\* vat_number not empty and not board_members.  A row complete for the
\* persistence layer is complete for the game exactly when it has a VAT
\* number, and a row complete for the game is complete for the persistence
\* layer exactly when it has board members.
C28_TwoColumnsApart ==
    picked # None =>
        /\ {c \in picked.persistence : c.vat_number # ""}
              = {c \in picked.game : c.board_members # ""}
        /\ \A c \in picked.persistence \ picked.game : c.vat_number = ""
        /\ \A c \in picked.game \ picked.persistence : c.board_members = ""

\* C28: a table holds a row complete for the persistence layer only, a row
\* complete for the game only, and a row complete for both
C28_EachWithoutTheOther ==
    /\ picked # None
    /\ picked.persistence \ picked.game # {}
    /\ picked.game \ picked.persistence # {}
    /\ picked.game \cap picked.persistence # {}

(***************************************************************************)
(* The frame of the feedback view.                                         *)
(***************************************************************************)
\* C29: a request that displays feedback generates no question.  The page
\* shows the text of the question stored in current_question; the step
\* leaves score, current_question, recent_types, recent_company_ids and
\* promo_shown, and every other key of the session, as they were, and
\* changes only feedback, which it clears, and the pending promo signal,
\* which it clears and shows when it was set.
C29_FeedbackFrame ==
    [][FeedbackPage(response')
       => /\ Pending(session) # None
          /\ Question(session) # None
          /\ response'.context.question = session.current_question.text
          /\ asked' = asked
          /\ DOMAIN session' = DOMAIN session
          /\ \A k \in DOMAIN session \ {"feedback", "show_promo"} : session'[k] = session[k]
          /\ \A k \in {"score", "current_question", "recent_types", "recent_company_ids", "promo_shown"} :
                k \in DOMAIN session
          /\ Pending(session') = None
          /\ ~PromoSignal(session')
          /\ ShowsPromo(response') <=> PromoSignal(session)]_vars

\* C29: the feedback of the answer that reached the threshold is on the
\* page with the promo, over the text of the question that was answered,
\* which is still the question of the session
C29_FeedbackOverItsQuestion ==
    /\ FeedbackPage(response)
    /\ ShowsPromo(response)
    /\ asked # <<>>
    /\ Question(session) # None
    /\ response.context.question = session.current_question.text
    /\ PromoShown(session)

(***************************************************************************)
(* The types of consecutive questions.                                     *)
(***************************************************************************)
\* C30: among the questions generated for a session since its last reset,
\* any two that are at most TYPE_COOLDOWN questions apart have different
\* types: the types of any TYPE_COOLDOWN + 1 consecutive questions are
\* pairwise distinct.
C30_NoRepeatWithinCooldown ==
    \A i, j \in 1..Len(asked) :
        (i < j /\ j - i <= TYPE_COOLDOWN) => asked[i] # asked[j]

\* C30: TYPE_COOLDOWN + 1 questions in a row, the last of them on the page
C30_SixInARow ==
    /\ QuestionPage(response)
    /\ Len(asked) = TYPE_COOLDOWN + 1
    /\ Cardinality(Range(asked)) = TYPE_COOLDOWN + 1
    /\ asked[Len(asked)] = session.current_question.type

C32_QuestionConsistent ==
    \A s \in {session, other} :
        Question(s) # None =>
            LET q == s.current_question
            IN /\ q.company_a_id # q.company_b_id
               /\ q.correct_company_id \in {q.company_a_id, q.company_b_id}
               /\ q.correct_position \in {"a", "b"}
               /\ q.correct_position = "a" <=> q.correct_company_id = q.company_a_id
               /\ q.correct_position = "b" <=> q.correct_company_id = q.company_b_id

\* C32: both positions are reached: one browser has a question with the
\* correct company on side a, the other the question of the same text with
\* the correct company on side b
C32_BothPositions ==
    /\ Question(session) # None
    /\ Question(other) # None
    /\ session.current_question.correct_position = "a"
    /\ other.current_question.correct_position = "b"
    /\ session.current_question.text = other.current_question.text
    /\ session.current_question.correct_company_id = other.current_question.company_b_id

(***************************************************************************)
(* The frame of a failed generation.                                       *)
(***************************************************************************)
\* the request asks to continue
Continuing(req) == "continue" \in DOMAIN req.GET /\ req.GET["continue"] = "1"

\* C33: a generation that fails changes nothing in the session.  After a
\* request that ends on the error page, score, recent_types,
\* recent_company_ids, current_question and promo_shown are what they were
\* before the request, and feedback is what it was when generate_question
\* was called: nothing pending, cleared by the continue of the request if
\* there was any.  A question generated earlier is still the stored one.
C33_FailureFrame ==
    [][ErrorPage(response')
       => /\ \A k \in {"score", "recent_types", "recent_company_ids", "current_question", "promo_shown"} :
                session'[k] = InitSession(session)[k]
          /\ Pending(session') = None
          /\ ~Continuing(request') => Pending(session) = None
          /\ \A k \in DOMAIN session \ {"feedback"} : session'[k] = session[k]
          /\ asked' = asked]_vars

\* C33: generation has failed on a continue after two questions and an
\* answer, and the second question is still stored
C33_FailedWithQuestionStored ==
    /\ ErrorPage(response)
    /\ Continuing(request)
    /\ Len(asked) = 2
    /\ Score(session) = 1
    /\ Question(session) # None
    /\ session.current_question.type = asked[2]

(***************************************************************************)
(* The text of a question and the two companies.                           *)
(***************************************************************************)
\* C34: the text of a question names the value of the correct company
\* only: for a pair returned by get_companies_for_question, the text of the
\* type for the wrong company differs from the text for the correct one,
\* for every type, activity included.
C34_TextOfTheCorrectOnly ==
    (picked # None /\ picked.result # None)
        => generate_question_text(picked.q_type, picked.result[1])
              # generate_question_text(picked.q_type, picked.result[2])

====
